---- MODULE Spec2Model ----
(***************************************************************************)
(* maketree: the tree-text parser (collect_entries and its classifiers)    *)
(* and the filesystem builder (the walk of main / run_maketree_with_       *)
(* entries over ensure_dir and touch_file).                                *)
(*                                                                         *)
(* A Rust String is modelled as the sequence of its chars; a char is a     *)
(* one-character TLA+ string, the box-drawing chars being written by their *)
(* code point ("U2500" is the horizontal bar, "U2502" the vertical bar,    *)
(* "U251C" the tee, "U2514" the corner, "U00A0" the no-break space).  Rust *)
(* indexes a str by BYTE offsets, so every slice goes through the UTF-8    *)
(* width of the chars.                                                     *)
(***************************************************************************)
EXTENDS Integers, Sequences, FiniteSets, TLC

VARIABLES lines, opts, cls, entries, stack, idx, path, fs, out, muts, pc, err, run, fs0

vars == <<lines, opts, cls, entries, stack, idx, path, fs, out, muts, pc, err, run, fs0>>

(***************************************************************************)
(* Bounds of the model.                                                    *)
(***************************************************************************)
MaxLines == 3

MaxDepth == 2

MaxRuns == 2

MaxChunks == 2

(***************************************************************************)
(* str: chars, UTF-8 widths, byte offsets and slices.                      *)
(***************************************************************************)
BoxChars == {"U2500", "U2502", "U251C", "U2514"}

\* U+00A0 NO-BREAK SPACE: White_Space, two bytes in UTF-8.
Nbsp == "U00A0"

\* char::len_utf8: the box-drawing chars (U+25xx) take three bytes, U+00A0 two,
\* ASCII one.
Utf8Len(c) ==
    IF c \in BoxChars THEN 3 ELSE IF c = Nbsp THEN 2 ELSE 1

RECURSIVE ByteLen(_)
\* str::len / as_bytes().len(): the length in bytes.
ByteLen(s) ==
    IF s = <<>> THEN 0 ELSE Utf8Len(Head(s)) + ByteLen(Tail(s))

\* The byte offset at which char number k+1 starts (k chars precede it).
ByteOffset(s, k) ==
    ByteLen(SubSeq(s, 1, k))

RECURSIVE CharsWithin(_, _)
\* The number of leading chars of s that end at or before byte offset b.
CharsWithin(s, b) ==
    IF s = <<>> \/ Utf8Len(Head(s)) > b
    THEN 0
    ELSE 1 + CharsWithin(Tail(s), b - Utf8Len(Head(s)))

\* The number of chars that precede byte offset b, a char boundary.
CharsBefore(s, b) ==
    CharsWithin(s, b)

\* str::is_char_boundary
IsCharBoundary(s, b) ==
    b >= 0 /\ ByteOffset(s, CharsWithin(s, b)) = b

\* &s[a..b]: defined on char boundaries only (Rust panics otherwise).
ByteSlice(s, a, b) ==
    SubSeq(s, CharsBefore(s, a) + 1, CharsBefore(s, b))

\* char::is_whitespace over the chars of the model.
IsWhitespace(c) ==
    c \in {" ", Nbsp}

\* char::is_ascii_digit
IsAsciiDigit(c) ==
    c \in {"0", "1", "2", "3", "4", "5", "6", "7", "8", "9"}

RECURSIVE LeadingWhitespace(_)
\* chars().take_while(|c| c.is_whitespace()).count()
LeadingWhitespace(s) ==
    IF s = <<>> \/ ~IsWhitespace(Head(s))
    THEN 0
    ELSE 1 + LeadingWhitespace(Tail(s))

RECURSIVE TrimEnd(_)
\* str::trim_end
TrimEnd(s) ==
    IF s = <<>> \/ ~IsWhitespace(s[Len(s)])
    THEN s
    ELSE TrimEnd(SubSeq(s, 1, Len(s) - 1))

\* str::trim
Trim(s) ==
    LET t == TrimEnd(s)
    IN  SubSeq(t, LeadingWhitespace(t) + 1, Len(t))

\* str::contains
Contains(s, pat) ==
    \E k \in 0..(Len(s) - Len(pat)) : SubSeq(s, k + 1, k + Len(pat)) = pat

\* str::find: the byte offset of the first match, -1 for None.
Find(s, pat) ==
    LET at == {k \in 0..(Len(s) - Len(pat)) : SubSeq(s, k + 1, k + Len(pat)) = pat}
    IN  IF at = {}
        THEN -1
        ELSE ByteOffset(s, CHOOSE k \in at : \A j \in at : k <= j)

\* str::ends_with('/')
EndsWithSlash(s) ==
    s # <<>> /\ s[Len(s)] = "/"

RECURSIVE TrimEndSlashes(_)
\* str::trim_end_matches('/')
TrimEndSlashes(s) ==
    IF EndsWithSlash(s) THEN TrimEndSlashes(SubSeq(s, 1, Len(s) - 1)) ELSE s

(***************************************************************************)
(* The string literals of the classifier.                                  *)
(***************************************************************************)
\* "── " in line.find
Connector == <<"U2500", "U2500", " ">>

\* "│   " in the chunk comparison
VBarChunk == <<"U2502", " ", " ", " ">>

\* "    " in the chunk comparison
SpaceChunk == <<" ", " ", " ", " ">>

\* "director" in is_stats_line
Director == <<"d", "i", "r", "e", "c", "t", "o", "r">>

\* "file" in is_stats_line
FileWord == <<"f", "i", "l", "e">>

(***************************************************************************)
(* The line classifier.                                                    *)
(***************************************************************************)
\* is_stats_line looking for the digit at the start of the line only.
is_stats_line_leading_digit(s) ==
    LET t == Trim(s)
        digits_seen == t # <<>> /\ IsAsciiDigit(t[1])
    IN  digits_seen /\ Contains(t, Director) /\ Contains(t, FileWord)

\* is_stats_line
is_stats_line(s) ==
    LET t == Trim(s)
        digits_seen == \E i \in 1..Len(t) : IsAsciiDigit(t[i])
    IN  digits_seen /\ Contains(t, Director) /\ Contains(t, FileWord)

RECURSIVE ScanChunks(_, _, _)
\* The while loop of parse_tree_style_depth: i is a char boundary on entry.  The
\* slice &prefix[i..i + 4] panics when i + 4 falls inside a char.
ScanChunks(prefix, i, depth) ==
    IF i + 4 <= ByteLen(prefix)
    THEN IF ~IsCharBoundary(prefix, i + 4)
         THEN [panic |-> TRUE, depth |-> depth]
         ELSE LET chunk == ByteSlice(prefix, i, i + 4)
              IN  IF chunk = VBarChunk \/ chunk = SpaceChunk
                  THEN ScanChunks(prefix, i + 4, depth + 1)
                  ELSE [panic |-> FALSE, depth |-> depth]
    ELSE [panic |-> FALSE, depth |-> depth]

\* The name of parse_tree_style_depth: line[conn_pos + 3..].trim()
NameAfter(line, conn_pos) ==
    Trim(ByteSlice(line, conn_pos + 3, ByteLen(line)))

\* parse_tree_style_depth: None, Some((depth, name)), or a panic of the slice.
parse_tree_style_depth(line) ==
    LET conn_pos == Find(line, Connector)
    IN  IF conn_pos = -1
        THEN [kind |-> "None"]
        ELSE LET prefix == ByteSlice(line, 0, conn_pos)
                 scan == ScanChunks(prefix, 0, 0)
             IN  IF scan.panic \/ ~IsCharBoundary(line, conn_pos + 3)
                 THEN [kind |-> "Panic"]
                 ELSE [kind |-> "Some", depth |-> scan.depth,
                       name |-> NameAfter(line, conn_pos)]

\* parse_indent_list_depth: (depth, name), or a panic of the slice line[leading..].
parse_indent_list_depth(line) ==
    LET leading == LeadingWhitespace(line)
    IN  IF ~IsCharBoundary(line, leading)
        THEN [kind |-> "Panic"]
        ELSE [kind |-> "Some", depth |-> leading \div 2,
              name |-> Trim(ByteSlice(line, leading, ByteLen(line)))]

\* The line test that opens the first pass of collect_entries.
IsIgnored(raw) ==
    LET t == Trim(raw)
    IN  t = <<>> \/ t = <<".">> \/ is_stats_line(raw)

\* One iteration of the first pass of collect_entries: what the line becomes.
ClassifyLine(raw) ==
    IF IsIgnored(raw)
    THEN [kind |-> "Ignore"]
    ELSE LET a == parse_tree_style_depth(raw)
         IN  IF a.kind = "Panic"
             THEN [kind |-> "Panic"]
             ELSE IF a.kind = "Some"
                  THEN [kind |-> "Entry", notation |-> "A", depth |-> a.depth,
                        name |-> a.name, is_dir |-> EndsWithSlash(a.name)]
                  ELSE LET b == parse_indent_list_depth(raw)
                       IN  IF b.kind = "Panic"
                           THEN [kind |-> "Panic"]
                           ELSE IF b.name = <<>>
                                THEN [kind |-> "Ignore"]
                                ELSE [kind |-> "Entry", notation |-> "B",
                                      depth |-> b.depth, name |-> b.name,
                                      is_dir |-> EndsWithSlash(b.name)]

RECURSIVE FirstPass(_)
\* The first pass of collect_entries: the classification of each line, up to and
\* including the first one that panics.
FirstPass(ls) ==
    IF ls = <<>>
    THEN <<>>
    ELSE LET c == ClassifyLine(Head(ls))
         IN  IF c.kind = "Panic" THEN <<c>> ELSE <<c>> \o FirstPass(Tail(ls))

\* Entry { depth, name, is_dir }
EntryOf(c) ==
    [depth |-> c.depth, name |-> c.name, is_dir |-> c.is_dir]

RECURSIVE PushedEntries(_)
\* The entries the first pass pushed, in order.
PushedEntries(cs) ==
    IF cs = <<>>
    THEN <<>>
    ELSE IF Head(cs).kind = "Entry"
         THEN <<EntryOf(Head(cs))>> \o PushedEntries(Tail(cs))
         ELSE PushedEntries(Tail(cs))

\* The lookahead test with >= in the place of >.
NextIsNotShallower(es, i) ==
    i + 1 <= Len(es) /\ es[i + 1].depth >= es[i].depth

\* The lookahead test of the second pass of collect_entries.
NextIsDeeper(es, i) ==
    i + 1 <= Len(es) /\ es[i + 1].depth > es[i].depth

\* The second pass of collect_entries.  An upgrade of entry i does not change
\* any depth, so each entry is decided by the depths of the first pass.
SecondPass(es) ==
    [i \in 1..Len(es) |->
        IF es[i].is_dir
        THEN es[i]
        ELSE [es[i] EXCEPT !.is_dir = NextIsDeeper(es, i)]]

\* Whether collect_entries panics on these lines.
Panics(ls) ==
    LET cs == FirstPass(ls)
    IN  cs # <<>> /\ cs[Len(cs)].kind = "Panic"

\* collect_entries
collect_entries(ls) ==
    SecondPass(PushedEntries(FirstPass(ls)))

(***************************************************************************)
(* The filesystem: a function from the paths that exist (sequences of      *)
(* components below the working directory, which always exists) to nodes.  *)
(***************************************************************************)
DirNode == [kind |-> "dir", content |-> "none"]

\* A regular file; content is "empty" for a file created by the builder.
FileNode(c) == [kind |-> "file", content |-> c]

\* Path::parent on the components.
Parent(comps) ==
    SubSeq(comps, 1, Len(comps) - 1)

\* The non-empty prefixes of a path: the path and its ancestors below ".".
Prefixes(comps) ==
    {SubSeq(comps, 1, k) : k \in 1..Len(comps)}

\* Whether q is p or lies beneath p.
IsBeneath(p, q) ==
    Len(p) <= Len(q) /\ SubSeq(q, 1, Len(p)) = p

\* A filesystem is a tree: the parent of every node is a directory.
WellFormedFs(f) ==
    \A p \in DOMAIN f : Len(p) > 1 => (Parent(p) \in DOMAIN f /\ f[Parent(p)].kind = "dir")

\* A path as the builder composes it: its components after "." and whether it
\* ends with a separator (PathBuf::push of an empty name leaves "dir/").
\* Path::exists: a path ending with a separator resolves only to a directory.
path_exists(f, p) ==
    \/ p.comps = <<>>
    \/ p.comps \in DOMAIN f /\ (p.slash => f[p.comps].kind = "dir")

\* Path::is_file
path_is_file(f, p) ==
    p.comps # <<>> /\ p.comps \in DOMAIN f /\ f[p.comps].kind = "file" /\ ~p.slash

\* Path::is_dir
path_is_dir(f, p) ==
    p.comps = <<>> \/ (p.comps \in DOMAIN f /\ f[p.comps].kind = "dir")

\* The world the filesystem operations act on: the filesystem, the lines printed
\* on standard output and the number of mutating filesystem calls made.
Ok(w) == [res |-> "Ok", w |-> w]

\* An io::Error returned to the caller.
Err(kind, w) == [res |-> kind, w |-> w]

\* println!("<msg> {}", path.display())
Report(w, msg, p) ==
    [w EXCEPT !.out = Append(@, [msg |-> msg, path |-> p.comps])]

\* fs::create_dir_all: fails, creating nothing, when the path or an ancestor is a
\* regular file (the first mkdir meets it); otherwise creates what is missing.
create_dir_all(w, p) ==
    IF \E q \in Prefixes(p.comps) : q \in DOMAIN w.fs /\ w.fs[q].kind = "file"
    THEN Err("Io", w)
    ELSE LET missing == Prefixes(p.comps) \ DOMAIN w.fs
         IN  Ok([w EXCEPT !.fs = [q \in DOMAIN w.fs \cup missing |->
                                     IF q \in missing THEN DirNode ELSE w.fs[q]],
                          !.muts = IF missing = {} THEN @ ELSE @ + 1])

\* fs::remove_file
remove_file(w, p) ==
    IF path_is_file(w.fs, p)
    THEN Ok([w EXCEPT !.fs = [q \in DOMAIN w.fs \ {p.comps} |-> w.fs[q]],
                      !.muts = @ + 1])
    ELSE Err("Io", w)

\* A removal of the directory node alone, leaving what is beneath it.
remove_dir_only(w, p) ==
    IF path_is_dir(w.fs, p) /\ p.comps # <<>>
    THEN Ok([w EXCEPT !.fs = [q \in DOMAIN w.fs \ {p.comps} |-> w.fs[q]],
                      !.muts = @ + 1])
    ELSE Err("Io", w)

\* fs::remove_dir_all
remove_dir_all(w, p) ==
    IF path_is_dir(w.fs, p) /\ p.comps # <<>>
    THEN Ok([w EXCEPT !.fs = [q \in {r \in DOMAIN w.fs : ~IsBeneath(p.comps, r)} |-> w.fs[q]],
                      !.muts = @ + 1])
    ELSE Err("Io", w)

\* An open that succeeds without creating the file.
open_without_create(w, p) ==
    Ok(w)

\* OpenOptions::new().create(true).write(true).open(path): creates an empty file
\* when none exists, opens an existing one without truncating it.
open_create(w, p) ==
    IF path_is_file(w.fs, p)
    THEN Ok(w)
    ELSE IF path_exists(w.fs, p) \/ p.slash \/ p.comps = <<>>
              \/ ~path_is_dir(w.fs, [comps |-> Parent(p.comps), slash |-> FALSE])
         THEN Err("Io", w)
         ELSE Ok([w EXCEPT !.fs = [q \in DOMAIN w.fs \cup {p.comps} |->
                                      IF q = p.comps THEN FileNode("empty") ELSE w.fs[q]],
                           !.muts = @ + 1])

\* The removal of the file without the creation of the directory.
RemoveFileOnly(w, p) ==
    remove_file(w, p)

\* The forced replacement of a file by a directory in ensure_dir.
ReplaceFileByDir(w, p) ==
    LET r == remove_file(w, p)
    IN  IF r.res # "Ok" THEN r ELSE create_dir_all(r.w, p)

\* What ensure_dir prints under force and dry_run for a file in the way.
DryRunReplaceFile(w, p) ==
    Report(w, "Would remove file", p)

\* ensure_dir replacing a file in the way whether or not force is set.
ensure_dir_forcing(w, p, o) ==
    IF path_exists(w.fs, p)
    THEN IF path_is_file(w.fs, p)
         THEN IF o.dry_run
              THEN Ok(DryRunReplaceFile(w, p))
              ELSE ReplaceFileByDir(w, p)
         ELSE Ok(w)
    ELSE IF o.dry_run
         THEN Ok(Report(w, "Would mkdir -p", p))
         ELSE create_dir_all(w, p)

\* ensure_dir
ensure_dir(w, p, o) ==
    IF path_exists(w.fs, p)
    THEN IF path_is_file(w.fs, p)
         THEN IF o.force
              THEN IF o.dry_run
                   THEN Ok(DryRunReplaceFile(w, p))
                   ELSE ReplaceFileByDir(w, p)
              ELSE Err("FileExistsWhereDirExpected", w)
         ELSE Ok(w)
    ELSE IF o.dry_run
         THEN Ok(Report(w, "Would mkdir -p", p))
         ELSE create_dir_all(w, p)

\* The end of touch_file creating the file under dry_run too.
CreateFileAlways(w, p, o) ==
    open_create(w, p)

\* The end of touch_file: the file is created, or its creation reported.
CreateFile(w, p, o) ==
    IF o.dry_run THEN Ok(Report(w, "Would touch", p)) ELSE open_create(w, p)

\* The forced removal of a directory in touch_file, then the creation.
ReplaceDirByFile(w, p, o) ==
    IF o.dry_run
    THEN CreateFile(Report(w, "Would remove dir", p), p, o)
    ELSE LET r == remove_dir_all(w, p)
         IN  IF r.res # "Ok" THEN r ELSE CreateFile(r.w, p, o)

\* File::create: creates the file or truncates the one that exists.
create_truncate(w, p) ==
    IF p.comps = <<>> \/ path_is_dir(w.fs, p)
          \/ ~path_is_dir(w.fs, [comps |-> Parent(p.comps), slash |-> FALSE])
    THEN Err("Io", w)
    ELSE Ok([w EXCEPT !.fs = [q \in DOMAIN w.fs \cup {p.comps} |->
                                 IF q = p.comps THEN FileNode("empty") ELSE w.fs[q]],
                      !.muts = @ + 1])

\* touch_file replacing a directory in the way whether or not force is set.
touch_file_forcing(w, p, o) ==
    LET r == ensure_dir(w, [comps |-> Parent(p.comps), slash |-> FALSE], o)
    IN  IF r.res # "Ok"
        THEN r
        ELSE IF path_exists(r.w.fs, p)
             THEN IF path_is_dir(r.w.fs, p)
                  THEN ReplaceDirByFile(r.w, p, o)
                  ELSE Ok(r.w)
             ELSE CreateFile(r.w, p, o)

\* touch_file creating the file again when it exists already.
touch_file_recreating(w, p, o) ==
    LET r == ensure_dir(w, [comps |-> Parent(p.comps), slash |-> FALSE], o)
    IN  IF r.res # "Ok"
        THEN r
        ELSE IF path_exists(r.w.fs, p)
             THEN IF path_is_dir(r.w.fs, p)
                  THEN IF o.force
                       THEN ReplaceDirByFile(r.w, p, o)
                       ELSE Err("DirExistsWhereFileExpected", r.w)
                  ELSE IF o.dry_run
                       THEN Ok(Report(r.w, "Would touch", p))
                       ELSE create_truncate(r.w, p)
             ELSE CreateFile(r.w, p, o)

\* touch_file
touch_file(w, p, o) ==
    LET r == ensure_dir(w, [comps |-> Parent(p.comps), slash |-> FALSE], o)
    IN  IF r.res # "Ok"
        THEN r
        ELSE IF path_exists(r.w.fs, p)
             THEN IF path_is_dir(r.w.fs, p)
                  THEN IF o.force
                       THEN ReplaceDirByFile(r.w, p, o)
                       ELSE Err("DirExistsWhereFileExpected", r.w)
                  ELSE Ok(r.w)
             ELSE CreateFile(r.w, p, o)

(***************************************************************************)
(* The walk of main / run_maketree_with_entries.                           *)
(***************************************************************************)
\* The resize of the stack without its truncation.
ResizedWithoutTruncate(st, depth) ==
    IF depth >= Len(st)
    THEN st \o [i \in 1..(depth - Len(st)) |-> <<>>]
    ELSE st

\* stack.resize(ent.depth, String::new()) / stack.truncate(ent.depth)
Resized(st, depth) ==
    IF depth >= Len(st)
    THEN st \o [i \in 1..(depth - Len(st)) |-> <<>>]
    ELSE SubSeq(st, 1, depth)

\* The non-empty components of the stack, in order.
NonEmpty(c) == c # <<>>

\* A path composition that pushes every slot of the stack, the empty ones too.
EntryPathAllSlots(st, ent) ==
    LET name == TrimEndSlashes(ent.name)
    IN  [comps |-> IF name = <<>> THEN st ELSE Append(st, name),
         slash |-> name = <<>>]

\* A path composition that pushes only the innermost non-empty component of
\* the stack before the name.
EntryPathLastOnly(st, ent) ==
    LET name == TrimEndSlashes(ent.name)
        all == SelectSeq(st, NonEmpty)
        comps == IF all = <<>> THEN <<>> ELSE <<all[Len(all)]>>
    IN  [comps |-> IF name = <<>> THEN comps ELSE Append(comps, name),
         slash |-> name = <<>>]

\* PathBuf::from(".") with every non-empty component of the stack pushed, then
\* the name with its trailing slashes trimmed.
EntryPath(st, ent) ==
    LET name == TrimEndSlashes(ent.name)
        comps == SelectSeq(st, NonEmpty)
    IN  [comps |-> IF name = <<>> THEN comps ELSE Append(comps, name),
         slash |-> name = <<>>]

\* A directory entry that leaves the stack as it is.
RecordedNowhere(st, ent) ==
    st

\* The stack after a directory entry: pushed, or written over a slot.
Recorded(st, ent) ==
    LET name == TrimEndSlashes(ent.name)
    IN  IF ent.depth = Len(st)
        THEN Append(st, name)
        ELSE IF ent.depth < Len(st)
             THEN IF ent.depth = 0
                  THEN IF st = <<>> THEN <<name>> ELSE [st EXCEPT ![1] = name]
                  ELSE [st EXCEPT ![ent.depth + 1] = name]
             ELSE st

(***************************************************************************)
(* The inputs of the model.                                                *)
(***************************************************************************)
Names == {<<"a">>, <<"b">>}

\* n spaces
Spaces(n) == [i \in 1..n |-> " "]

\* The names used at a depth: one name is enough at the deepest level.
NamesAt(d) ==
    IF d < MaxDepth THEN Names ELSE {<<"b">>}

\* The lines of an indented list: 2 spaces per level, a name, "/" on a directory;
\* and the line "/", whose name is empty once its slashes are trimmed.
BuilderLines ==
    UNION {{Spaces(2 * d) \o n \o s : n \in NamesAt(d), s \in {<<>>, <<"/">>}} :
               d \in 0..MaxDepth}
        \cup {<<"/">>}

\* The input texts of at most MaxLines lines over a set of lines.
Inputs(L) ==
    UNION {[1..n -> L] : n \in 0..MaxLines}

\* The paths of the starting filesystems: a node "a" and a node "a/b" in it.
StartPaths ==
    {<<(<<"a">>)>>, <<(<<"a">>), (<<"b">>)>>}

\* The starting filesystems: every tree over StartPaths; its files hold data.
StartFs ==
    {f \in UNION {[D -> {DirNode, FileNode("data")}] : D \in SUBSET StartPaths} :
        WellFormedFs(f)}

\* "3 directories, 7 files": the summary line of tree.
StatsLine ==
    <<"3", " ">> \o Director \o <<"i", "e", "s", ",", " ", "7", " ">> \o FileWord \o <<"s">>

RECURSIVE Flat(_)
\* The concatenation of a sequence of strings.
Flat(ss) ==
    IF ss = <<>> THEN <<>> ELSE Head(ss) \o Flat(Tail(ss))

\* The prefixes of tree: at most MaxChunks chunks, each "│   " or "    ".
ChunkPrefixes ==
    {Flat(cs) : cs \in UNION {[1..k -> {VBarChunk, SpaceChunk}] : k \in 0..MaxChunks}}

\* Lines of tree: a prefix, the tee, the connector, a name.
TreeLines ==
    {p \o <<"U251C">> \o Connector \o n : p \in ChunkPrefixes, n \in {<<"a">>, <<"a", "/">>}}

\* Lines with a connector that tree does not print: a two-space prefix, a corner
\* with blanks around the name, a summary line after a connector, no name.
OddTreeLines ==
    { <<" ", " ", "U251C">> \o Connector \o <<"a">>,
      <<"U2514">> \o Connector \o <<" ", "a", " ">>,
      <<"U251C">> \o Connector \o StatsLine,
      <<"U2514">> \o Connector }

\* Lines of an indented list at every indentation up to 2 * MaxDepth - 1 spaces.
ListLines ==
    {Spaces(n) \o m : n \in 0..(2 * MaxDepth - 1), m \in {<<"a">>, <<"a", "/">>}}

\* Blank lines, ".", the summary line, two lines that are almost one, and "/".
OtherLines ==
    { <<>>, <<" ">>, <<".">>, StatsLine, <<" ">> \o StatsLine,
      Director \o <<" ">> \o FileWord,
      <<"3", " ">> \o Director,
      <<"/">> }

\* Lines indented with no-break spaces, and a line of one alone.
WideSpaceLines ==
    { <<Nbsp, "a">>, <<Nbsp, Nbsp, "a">>, <<Nbsp>> }

\* The lines the classifier is checked on.
ParseLines ==
    TreeLines \cup OddTreeLines \cup ListLines \cup OtherLines \cup WideSpaceLines

\* The plain lines around the line of interest in the classifier's inputs.
PlainLines ==
    {Spaces(2 * d) \o <<"b">> : d \in 0..MaxDepth}

\* Texts of at most MaxLines lines: one line of ParseLines among plain lines.
ParseInputs ==
    {<<>>} \cup
    UNION {{[i \in 1..n |-> IF i = k THEN l ELSE f[i]] :
                k \in 1..n, l \in ParseLines, f \in [1..n -> PlainLines]} :
               n \in 1..MaxLines}

NoPath == [comps |-> <<>>, slash |-> FALSE]

\* The state in which a run of the program starts, on a given filesystem.
Fresh(f) ==
    /\ cls = <<>>
    /\ entries = <<>>
    /\ stack = <<>>
    /\ idx = 0
    /\ path = NoPath
    /\ fs = f
    /\ fs0 = f
    /\ out = <<>>
    /\ muts = 0
    /\ pc = "read"
    /\ err = "none"

Init ==
    /\ lines \in Inputs(BuilderLines)
    /\ opts \in [force : BOOLEAN, dry_run : BOOLEAN]
    /\ run = 1
    /\ \E f \in StartFs : Fresh(f)

(***************************************************************************)
(* The steps of the program.                                               *)
(***************************************************************************)
\* collect_entries(&lines): both passes; a panic of a slice ends the program.
Collect ==
    /\ pc = "read"
    /\ LET panics == Panics(lines)
       IN  /\ cls' = FirstPass(lines)
           /\ entries' = IF panics THEN <<>> ELSE collect_entries(lines)
           /\ pc' = IF panics THEN "panic" ELSE "walk"
    /\ UNCHANGED <<lines, opts, stack, idx, path, fs, out, muts, err, run, fs0>>

\* The world the filesystem operations of this step start from.
World == [fs |-> fs, out |-> out, muts |-> muts]

\* The effect of an operation whose error does not end the loop.
AppliedContinuing(r) ==
    /\ fs' = r.w.fs
    /\ out' = r.w.out
    /\ muts' = r.w.muts
    /\ err' = IF r.res = "Ok" THEN "none" ELSE r.res
    /\ pc' = "walk"

\* The effect of the operation of one loop iteration on the state.
Applied(r) ==
    /\ fs' = r.w.fs
    /\ out' = r.w.out
    /\ muts' = r.w.muts
    /\ err' = IF r.res = "Ok" THEN "none" ELSE r.res
    /\ pc' = IF r.res = "Ok" THEN "walk" ELSE "failed"

\* One iteration of the loop for a directory entry: resize the stack, compose
\* the path, ensure_dir, and on success record the name on the stack.
StepDir ==
    /\ pc = "walk"
    /\ idx < Len(entries)
    /\ entries[idx + 1].is_dir
    /\ LET ent == entries[idx + 1]
           st == Resized(stack, ent.depth)
           p == EntryPath(st, ent)
           r == ensure_dir(World, p, opts)
       IN  /\ path' = p
           /\ stack' = IF r.res = "Ok" THEN Recorded(st, ent) ELSE st
           /\ Applied(r)
    /\ idx' = idx + 1
    /\ UNCHANGED <<lines, opts, cls, entries, run, fs0>>

\* One iteration of the loop for a file entry: resize the stack, compose the
\* path, touch_file.
StepFile ==
    /\ pc = "walk"
    /\ idx < Len(entries)
    /\ ~entries[idx + 1].is_dir
    /\ LET ent == entries[idx + 1]
           st == Resized(stack, ent.depth)
           p == EntryPath(st, ent)
           r == touch_file(World, p, opts)
       IN  /\ path' = p
           /\ stack' = st
           /\ Applied(r)
    /\ idx' = idx + 1
    /\ UNCHANGED <<lines, opts, cls, entries, run, fs0>>

\* The loop is over: main returns Ok(()).
Finish ==
    /\ pc = "walk"
    /\ idx = Len(entries)
    /\ pc' = "done"
    /\ UNCHANGED <<lines, opts, cls, entries, stack, idx, path, fs, out, muts, err, run, fs0>>

\* The program is run again on the same input and options, on the filesystem
\* the run before it left.
RunAgain ==
    /\ pc = "done"
    /\ run < MaxRuns
    /\ run' = run + 1
    /\ cls' = <<>>
    /\ entries' = <<>>
    /\ stack' = <<>>
    /\ idx' = 0
    /\ path' = NoPath
    /\ fs0' = fs
    /\ out' = <<>>
    /\ muts' = 0
    /\ pc' = "read"
    /\ UNCHANGED <<lines, opts, fs, err>>

Next ==
    \/ Collect
    \/ StepDir
    \/ StepFile
    \/ Finish
    \/ RunAgain

Spec == Init /\ [][Next]_vars

\* The classifier alone: collect_entries on the texts of ParseInputs, in an empty
\* working directory.
InitParse ==
    /\ lines \in ParseInputs
    /\ opts = [force |-> FALSE, dry_run |-> FALSE]
    /\ run = 1
    /\ Fresh(<<>>)

SpecParse == InitParse /\ [][Collect]_vars

(***************************************************************************)
(* paste_to_path of main.rs: the clipboard text goes through the tree      *)
(* builder or is read as a list of paths.  The filesystem is the one below *)
(* the target directory, with the root directory "/" next to it under the  *)
(* component Root, where Path::join puts an absolute path.                 *)
(***************************************************************************)
\* The component that stands for the root directory "/" of an absolute path.
Root == <<"/">>

\* Path::is_absolute for the text of a path.
IsAbsolute(s) ==
    s # <<>> /\ Head(s) = "/"

RECURSIVE SplitPath(_)
\* Path::components: the names between the separators; "." and the empty
\* name between two separators name the directory itself.
SplitPath(s) ==
    IF s = <<>>
    THEN <<>>
    ELSE LET seps == {k \in 1..Len(s) : s[k] = "/"}
             k == IF seps = {} THEN Len(s) + 1 ELSE CHOOSE i \in seps : \A j \in seps : i <= j
             first == SubSeq(s, 1, k - 1)
         IN  (IF first \in {<<>>, <<".">>} THEN <<>> ELSE <<first>>)
                 \o SplitPath(SubSeq(s, k + 1, Len(s)))

\* path.join(rel) on the target: an absolute rel replaces the target.
Joined(rel) ==
    [comps |-> IF IsAbsolute(rel) THEN <<Root>> \o SplitPath(rel) ELSE SplitPath(rel),
     slash |-> EndsWithSlash(rel)]

\* The test of paste_to_path: the entries look like a tree.
LooksLikeTree(es) ==
    es # <<>> /\ \E i \in 1..Len(es) : es[i].depth > 0 \/ es[i].is_dir

\* The file branch of the list of paths: create_dir_all(parent), then
\* fs::write(&full_path, "").
WriteEmpty(w, p) ==
    LET r == create_dir_all(w, [comps |-> Parent(p.comps), slash |-> FALSE])
    IN  IF r.res # "Ok" THEN r ELSE create_truncate(r.w, p)

\* "1 director file/": a line the classifier ignores that ends with "/".
IgnoredDirLine ==
    <<"1", " ">> \o Director \o <<" ">> \o FileWord \o <<"/">>

\* The lines of a list of paths: names, a nested path, an absolute path, ".",
\* blank lines and the ignored line with a slash.
PathLines ==
    { <<"a">>, <<"b">>, <<"a", "/", "b">>, <<"/", "a">>, <<".">>, <<>>, <<" ">>,
      IgnoredDirLine }

\* The clipboard texts: trees of plain names, and lists of paths.
PasteInputs ==
    Inputs(BuilderLines) \cup Inputs(PathLines)

\* The state paste_to_path starts in: the options it passes to the builder,
\* a starting filesystem below the target and the root directory.
InitPaste ==
    /\ lines \in PasteInputs
    /\ opts = [force |-> FALSE, dry_run |-> FALSE]
    /\ run = 1
    /\ \E f \in StartFs : Fresh(f @@ (<<Root>> :> DirNode))

\* collect_entries(&lines) and the choice of the branch.  The builder runs
\* with the target as its working directory (create_dir_all and
\* set_current_dir on the target leave what is below the target as it is).
PasteDispatch ==
    /\ pc = "read"
    /\ LET panics == Panics(lines)
           es == IF panics THEN <<>> ELSE collect_entries(lines)
       IN  /\ cls' = FirstPass(lines)
           /\ entries' = es
           /\ pc' = IF panics THEN "panic"
                    ELSE IF LooksLikeTree(es) THEN "walk" ELSE "list"
    /\ UNCHANGED <<lines, opts, stack, idx, path, fs, out, muts, err, run, fs0>>

\* One iteration of the loop over the lines of a list of paths.
ListStep ==
    /\ pc = "list"
    /\ idx < Len(lines)
    /\ LET line == lines[idx + 1]
           is_dir == EndsWithSlash(line)
           rel == IF is_dir THEN ByteSlice(line, 0, ByteLen(line) - 1) ELSE line
           full == Joined(rel)
           r == IF is_dir THEN create_dir_all(World, full) ELSE WriteEmpty(World, full)
       IN  IF Trim(line) = <<>>
           THEN UNCHANGED <<path, fs, out, muts, err, pc>>
           ELSE /\ path' = full
                /\ fs' = r.w.fs
                /\ out' = r.w.out
                /\ muts' = r.w.muts
                /\ err' = IF r.res = "Ok" THEN "none" ELSE r.res
                /\ pc' = IF r.res = "Ok" THEN "list" ELSE "failed"
    /\ idx' = idx + 1
    /\ UNCHANGED <<lines, opts, cls, entries, stack, run, fs0>>

\* The list is over: paste_to_path returns.
ListFinish ==
    /\ pc = "list"
    /\ idx = Len(lines)
    /\ pc' = "done"
    /\ UNCHANGED <<lines, opts, cls, entries, stack, idx, path, fs, out, muts, err, run, fs0>>

NextPaste ==
    \/ PasteDispatch
    \/ StepDir
    \/ StepFile
    \/ Finish
    \/ ListStep
    \/ ListFinish

SpecPaste == InitPaste /\ [][NextPaste]_vars

(***************************************************************************)
(* The classifier's properties, checked under SpecParse.                   *)
(***************************************************************************)
\* C7: in the list collect_entries returns, entry i is a directory exactly when
\* its name ends with "/" or entry i + 1 exists and is strictly deeper; so the
\* last entry is a file unless it ends with "/", and a trailing slash is never
\* taken back.
DirectoryInference ==
    pc = "walk" =>
        \A i \in 1..Len(entries) :
            entries[i].is_dir <=>
                \/ EndsWithSlash(entries[i].name)
                \/ (i < Len(entries) /\ entries[i + 1].depth > entries[i].depth)

\* An entry without a slash was upgraded by a deeper follower, while the last
\* entry, without a slash, stayed a file.
DirectoryInferenceWitness ==
    /\ pc = "walk"
    /\ Len(entries) = 3
    /\ ~EndsWithSlash(entries[1].name) /\ entries[1].is_dir
    /\ entries[2].depth > entries[1].depth
    /\ ~entries[3].is_dir

\* The branch glyphs tree prints before the connector.
Glyphs == {"U251C", "U2514"}

\* The line is k chunks ("│   " or "    "), a branch glyph, the connector, a rest.
ChunkedTreeLine(l, k) ==
    /\ Len(l) >= 4 * k + 1 + Len(Connector)
    /\ \A j \in 0..(k - 1) : SubSeq(l, 4 * j + 1, 4 * j + 4) \in {VBarChunk, SpaceChunk}
    /\ l[4 * k + 1] \in Glyphs
    /\ SubSeq(l, 4 * k + 2, 4 * k + 1 + Len(Connector)) = Connector

\* C8: a connector-style line whose prefix before the branch glyph is exactly k
\* chunks, each "│   " or "    ", is classified with depth k.
NotationADepth ==
    \A i \in 1..Len(cls) : \A k \in 0..MaxChunks :
        (ChunkedTreeLine(lines[i], k) /\ ~IsIgnored(lines[i]))
            => (cls[i].kind = "Entry" /\ cls[i].depth = k)

\* The text of a line after its first connector, trimmed.
AfterConnector(l) ==
    LET k == CHOOSE m \in 0..(Len(l) - Len(Connector)) :
                 /\ SubSeq(l, m + 1, m + Len(Connector)) = Connector
                 /\ \A j \in 0..(m - 1) : SubSeq(l, j + 1, j + Len(Connector)) # Connector
    IN  Trim(SubSeq(l, k + Len(Connector) + 1, Len(l)))

\* C9: the name of a line classified by the connector is the text that follows
\* the whole connector, trimmed.
NotationAName ==
    \A i \in 1..Len(cls) :
        (cls[i].kind = "Entry" /\ cls[i].notation = "A")
            => cls[i].name = AfterConnector(lines[i])

\* The line holds an ASCII digit, "director" and "file".
LooksLikeStats(l) ==
    /\ \E i \in 1..Len(l) : IsAsciiDigit(l[i])
    /\ Contains(l, Director)
    /\ Contains(l, FileWord)

\* The text without its line k.
WithoutLine(ls, k) ==
    SubSeq(ls, 1, k - 1) \o SubSeq(ls, k + 1, Len(ls))

\* C10: a line that holds a digit, "director" and "file" gives no entry, wherever
\* it stands and whether or not it holds a connector, and collect_entries
\* returns what it returns for the text without that line.
StatsLineFiltering ==
    pc \in {"walk", "panic"} =>
        \A k \in 1..Len(lines) :
            LooksLikeStats(lines[k]) =>
                /\ k <= Len(cls) => cls[k].kind = "Ignore"
                /\ (pc = "panic") = Panics(WithoutLine(lines, k))
                /\ pc = "walk" => entries = collect_entries(WithoutLine(lines, k))

\* A summary line stands between an entry and a deeper one: the lookahead of
\* the second pass skips it and upgrades the entry.
StatsLineFilteringWitness ==
    /\ pc = "walk"
    /\ Len(lines) = 3
    /\ LooksLikeStats(lines[2])
    /\ Len(entries) = 2
    /\ ~EndsWithSlash(entries[1].name) /\ entries[1].is_dir

\* C11: every entry collect_entries returns has a name that is non-empty and
\* stays non-empty once its trailing "/" are trimmed for the path.
NamesNeverEmpty ==
    pc = "walk" =>
        \A i \in 1..Len(entries) :
            entries[i].name # <<>> /\ TrimEndSlashes(entries[i].name) # <<>>

\* C12: a line that is not ignored is classified by the indented-list notation
\* exactly when it holds no connector, and then its depth is its number of
\* leading whitespace chars divided by 2 and its name the rest, trimmed.
NotationBFallback ==
    \A i \in 1..Len(cls) :
        ~IsIgnored(lines[i]) =>
            LET isB == cls[i].kind = "Entry" /\ cls[i].notation = "B"
                lead == LeadingWhitespace(lines[i])
            IN  /\ isB <=> ~Contains(lines[i], Connector)
                /\ isB => /\ cls[i].depth = lead \div 2
                          /\ cls[i].name = Trim(SubSeq(lines[i], lead + 1, Len(lines[i])))

(***************************************************************************)
(* The builder's properties, checked under Spec.                           *)
(***************************************************************************)
\* C1: when a run without force and without dry_run has succeeded, the run
\* after it, on the same input and the filesystem it left, does not fail, makes
\* no mutating filesystem call and leaves the filesystem as it found it.
Idempotence ==
    (run >= 2 /\ ~opts.force /\ ~opts.dry_run) =>
        (pc \notin {"failed", "panic"} /\ fs = fs0 /\ muts = 0)

\* A second run has gone through an input of three entries that the first run
\* materialized.
IdempotenceWitness ==
    /\ run = 2 /\ pc = "done" /\ ~opts.force /\ ~opts.dry_run
    /\ idx = 3
    /\ \E p \in DOMAIN fs : fs[p].kind = "file" /\ fs[p].content = "empty"

\* The path an entry needs to be a directory: its own path for a directory
\* entry, the parent of its path for a file entry.
RequiredDir(ent, p) ==
    IF ent.is_dir THEN p ELSE [comps |-> Parent(p.comps), slash |-> FALSE]

\* C2 as claimed: a run without force that meets a regular file, there since
\* the run started, where an entry needs a directory ends on "file exists where
\* directory expected" with the filesystem as it was when the run started.
ConflictLeavesRunStartFilesystem ==
    (/\ pc \in {"walk", "failed", "done"}
     /\ idx >= 1
     /\ ~opts.force
     /\ path_is_file(fs0, RequiredDir(entries[idx], path)))
        => (pc = "failed" /\ err = "FileExistsWhereDirExpected" /\ fs = fs0)

\* C2 as amended: without force, the iteration for an entry that needs a
\* directory where a regular file exists ends the run with "file exists where
\* directory expected" and mutates nothing: the filesystem the run ends with is
\* the one that iteration started from.
ConflictWithoutForce ==
    [][(/\ pc = "walk"
        /\ idx' = idx + 1
        /\ ~opts.force
        /\ path_is_file(fs, RequiredDir(entries[idx'], path')))
           => (/\ pc' = "failed"
               /\ err' = "FileExistsWhereDirExpected"
               /\ fs' = fs
               /\ muts' = muts)]_vars

\* A run without force has failed on a file in the place of a directory after
\* earlier entries had changed the filesystem.
ConflictWithoutForceWitness ==
    /\ pc = "failed" /\ err = "FileExistsWhereDirExpected" /\ ~opts.force
    /\ muts > 0 /\ fs # fs0

\* C3: under force and dry_run, ensure_dir on a path that is a regular file
\* succeeds, leaves the filesystem unchanged and prints both the removal of
\* the file and the creation of the directory.
DryRunForcedReportsBoth ==
    (/\ opts.force /\ opts.dry_run
     /\ pc \in {"walk", "failed", "done"}
     /\ idx >= 1
     /\ entries[idx].is_dir
     /\ path_is_file(fs, path))
        => (/\ pc # "failed"
            /\ fs = fs0
            /\ \E i \in 1..Len(out) :
                   out[i] = [msg |-> "Would remove file", path |-> path.comps]
            /\ \E i \in 1..Len(out) :
                   out[i] = [msg |-> "Would mkdir -p", path |-> path.comps])

\* C4: under dry_run the filesystem of every state of the run is the one the
\* run started with, and no mutating filesystem call is made, with or without
\* force.
DryRunNeverMutates ==
    opts.dry_run => (fs = fs0 /\ muts = 0)

\* A dry run with force has ended after reporting the removal of a directory in
\* the way of a file.
DryRunNeverMutatesWitness ==
    /\ opts.dry_run /\ opts.force /\ pc = "done" /\ run = 1
    /\ \E i \in 1..Len(out) : out[i].msg = "Would remove dir"
    /\ \E i \in 1..Len(out) : out[i].msg = "Would touch"

\* A depth sequence that starts at 0 and never rises by more than one.
WellFormedDepths(depths) ==
    depths = <<>> \/
        (depths[1] = 0 /\ \A i \in 2..Len(depths) : depths[i] <= depths[i - 1] + 1)

\* The nearest entry before entry i that is one level up; 0 when there is none.
ParentIndex(depths, i) ==
    LET up == {j \in 1..(i - 1) : depths[j] = depths[i] - 1}
    IN  IF up = {} THEN 0 ELSE CHOOSE j \in up : \A m \in up : m <= j

RECURSIVE PathByParents(_, _, _)
\* The path of entry i by parentage: the path of its parent, then its own name.
PathByParents(depths, names, i) ==
    LET own == IF names[i] = <<>> THEN <<>> ELSE <<names[i]>>
    IN  IF depths[i] = 0 \/ ParentIndex(depths, i) = 0
        THEN own
        ELSE PathByParents(depths, names, ParentIndex(depths, i)) \o own

\* The depths of the entries.
DepthsOf(es) == [i \in 1..Len(es) |-> es[i].depth]

\* The names of the entries without their trailing slashes.
StrippedNames(es) == [i \in 1..Len(es) |-> TrimEndSlashes(es[i].name)]

\* C6: when the first entry has depth 0 and no entry is more than one level
\* deeper than the entry before it, the path composed for an entry is the path
\* of the nearest preceding entry one level up joined with its slash-stripped
\* name, and just its name at depth 0; an entry at the depth of a preceding
\* directory is its sibling.
DepthReconstruction ==
    (pc \in {"walk", "failed", "done"} /\ idx >= 1 /\ WellFormedDepths(DepthsOf(entries)))
        => path.comps = PathByParents(DepthsOf(entries), StrippedNames(entries), idx)

\* The third entry stands at depth 1 right after a directory at depth 1: it is
\* composed as a sibling of that directory, under the first entry.
DepthReconstructionWitness ==
    /\ pc = "walk" /\ idx = 3
    /\ entries[1].depth = 0 /\ entries[2].depth = 1 /\ entries[3].depth = 1
    /\ entries[2].is_dir
    /\ path.comps = <<TrimEndSlashes(entries[1].name), TrimEndSlashes(entries[3].name)>>

\* The parts of a line of an indented-list description: depth, name, slash.
DescParts(l) ==
    CHOOSE t \in (0..MaxDepth) \X Names \X {<<>>, <<"/">>} :
        l = Spaces(2 * t[1]) \o t[2] \o t[3]

\* The line is 2 spaces per level, a name, and "/" or nothing.
IsDescLine(l) ==
    \E t \in (0..MaxDepth) \X Names \X {<<>>, <<"/">>} :
        l = Spaces(2 * t[1]) \o t[2] \o t[3]

\* The depths a description gives its lines.
DescDepths(ls) == [i \in 1..Len(ls) |-> DescParts(ls[i])[1]]

\* The names a description gives its lines.
DescNames(ls) == [i \in 1..Len(ls) |-> DescParts(ls[i])[2]]

\* The type a description gives line i.
DescKind(ls, i) == IF DescParts(ls[i])[3] = <<>> THEN "file" ELSE "dir"

\* An indented-list description: consistent 2-space indentation from depth 0, a
\* slash on every directory (a line followed by a deeper one), none on files.
IsDescription(ls) ==
    /\ \A i \in 1..Len(ls) : IsDescLine(ls[i])
    /\ WellFormedDepths(DescDepths(ls))
    /\ \A i \in 1..(Len(ls) - 1) :
           DescDepths(ls)[i + 1] > DescDepths(ls)[i] => DescKind(ls, i) = "dir"

\* The (relative path, type) pairs a description describes.
Described(ls) ==
    {<<PathByParents(DescDepths(ls), DescNames(ls), i), DescKind(ls, i)>> : i \in 1..Len(ls)}

\* The (relative path, type) pairs of a filesystem.
Shape(f) ==
    {<<p, f[p].kind>> : p \in DOMAIN f}

\* No path is described both as a file and as a directory.
OneTypePerPath(ls) ==
    \A x \in Described(ls) : \A y \in Described(ls) : x[1] = y[1] => x[2] = y[2]

\* C5 as claimed: every indented-list description, materialized into an empty
\* directory without force and dry_run, succeeds and yields exactly the nodes it
\* describes.
RoundTripAnyDescription ==
    (/\ run = 1 /\ ~opts.force /\ ~opts.dry_run
     /\ DOMAIN fs0 = {}
     /\ IsDescription(lines))
        => (/\ pc \notin {"failed", "panic"}
            /\ pc = "done" => Shape(fs) = Described(lines))

\* C5 as amended: the same for every description that gives each path one type.
RoundTrip ==
    (/\ run = 1 /\ ~opts.force /\ ~opts.dry_run
     /\ DOMAIN fs0 = {}
     /\ IsDescription(lines)
     /\ OneTypePerPath(lines))
        => (/\ pc \notin {"failed", "panic"}
            /\ pc = "done" => Shape(fs) = Described(lines))

\* A description of three levels has been materialized into an empty directory.
RoundTripWitness ==
    /\ run = 1 /\ ~opts.force /\ ~opts.dry_run /\ DOMAIN fs0 = {}
    /\ IsDescription(lines) /\ OneTypePerPath(lines)
    /\ pc = "done"
    /\ \E p \in DOMAIN fs : Len(p) = 3 /\ fs[p].kind = "file"

\* Every node of f is a node of g, of the same type and content.
Keeps(f, g) ==
    \A p \in DOMAIN f : p \in DOMAIN g /\ g[p] = f[p]

\* Sequence s is a prefix of sequence t.
IsPrefix(s, t) ==
    Len(s) <= Len(t) /\ SubSeq(t, 1, Len(s)) = s

\* C13: the run fails exactly when the operation of an entry returns an error
\* and it returns that error; the failing step takes nothing back of what the
\* entries before it made or printed; and once an operation has returned an
\* error no entry is processed, nothing is printed and the filesystem does not
\* change any more.
FailFast ==
    [][/\ err # "none" => UNCHANGED <<fs, out, muts, idx, stack, err, pc>>
       /\ (pc' = "failed") <=> (err' # "none")
       /\ (pc = "walk" /\ pc' = "failed") =>
              /\ idx' = idx + 1
              /\ Keeps(fs, fs')
              /\ IsPrefix(out, out')]_vars

\* A run failed on its second entry with a third one left: what the first
\* entry created is in place and the third entry was never reached.
FailFastWitness ==
    /\ pc = "failed" /\ err # "none"
    /\ idx = 2 /\ Len(entries) = 3
    /\ DOMAIN fs0 # DOMAIN fs
    /\ Keeps(fs0, fs)

\* This step is the loop iteration of a file entry (touch_file on path').
FileStep ==
    pc = "walk" /\ idx < Len(entries) /\ idx' = idx + 1 /\ ~entries[idx + 1].is_dir

\* This step is the loop iteration of a directory entry (ensure_dir on path').
DirStep ==
    pc = "walk" /\ idx < Len(entries) /\ idx' = idx + 1 /\ entries[idx + 1].is_dir

\* C14: touch_file on a path that is a regular file returns Ok and leaves the
\* filesystem as it is, the content of that file included, whatever force and
\* dry_run are.
ExistingFilePreserved ==
    [][(FileStep /\ path_is_file(fs, path'))
          => (err' = "none" /\ pc' = "walk" /\ fs' = fs /\ muts' = muts)]_vars

\* touch_file has met a file of the starting filesystem, under force and
\* without dry_run, and the file holds its data.
ExistingFilePreservedWitness ==
    /\ pc = "walk" /\ idx = 1 /\ ~entries[1].is_dir
    /\ opts.force /\ ~opts.dry_run
    /\ path_is_file(fs0, path) /\ fs0[path.comps].content = "data"
    /\ fs = fs0

\* C15: touch_file without force on a path that is a directory returns the
\* error "directory exists where file expected" and leaves the filesystem as
\* it is, under dry_run or not.
FileConflictWithoutForce ==
    [][(FileStep /\ ~opts.force /\ path_is_dir(fs, path'))
          => (/\ err' = "DirExistsWhereFileExpected" /\ pc' = "failed"
              /\ fs' = fs /\ muts' = muts)]_vars

\* touch_file without force has met a directory that an earlier entry of the
\* run created, and failed.
FileConflictWithoutForceWitness ==
    /\ pc = "failed" /\ err = "DirExistsWhereFileExpected"
    /\ ~opts.force /\ ~opts.dry_run
    /\ idx = 2 /\ entries[1].is_dir /\ ~entries[2].is_dir
    /\ path.comps \notin DOMAIN fs0
    /\ path_is_dir(fs, path)

\* Filesystem g is f with the node at p replaced by node n, nothing else
\* changed.
OnlyReplaced(f, g, p, n) ==
    /\ DOMAIN g = DOMAIN f
    /\ g[p] = n
    /\ \A q \in DOMAIN f \ {p} : g[q] = f[q]

\* C16: ensure_dir with force and without dry_run on a path that is a regular
\* file returns Ok; afterwards the path is a directory, the file is gone and
\* every other node is as it was.
ForcedEnsureDir ==
    [][(DirStep /\ opts.force /\ ~opts.dry_run /\ path_is_file(fs, path'))
          => (/\ err' = "none" /\ pc' = "walk"
              /\ OnlyReplaced(fs, fs', path'.comps, DirNode))]_vars

\* ensure_dir has replaced a file of the starting filesystem that lay in a
\* directory: the directory around it is as it was.
ForcedEnsureDirWitness ==
    /\ pc = "walk" /\ idx >= 1 /\ entries[idx].is_dir
    /\ opts.force /\ ~opts.dry_run
    /\ Len(path.comps) = 2
    /\ path_is_file(fs0, path)
    /\ OnlyReplaced(fs0, fs, path.comps, DirNode)

\* C17: touch_file with force and without dry_run on a path that is a
\* directory returns Ok; afterwards the path is an empty regular file and no
\* node that was beneath the directory exists, whoever created it.
ForcedTouchFile ==
    [][(FileStep /\ opts.force /\ ~opts.dry_run /\ path_is_dir(fs, path'))
          => (/\ err' = "none" /\ pc' = "walk"
              /\ path'.comps \in DOMAIN fs'
              /\ fs'[path'.comps] = FileNode("empty")
              /\ \A q \in DOMAIN fs' : IsBeneath(path'.comps, q) => q = path'.comps)]_vars

\* touch_file has replaced a directory that this run created and filled: the
\* run started in an empty directory and only the empty file is left.
ForcedTouchFileWitness ==
    /\ pc = "walk" /\ idx = 3 /\ ~entries[3].is_dir
    /\ opts.force /\ ~opts.dry_run
    /\ entries[1].is_dir /\ entries[2].depth = 1
    /\ TrimEndSlashes(entries[1].name) = entries[3].name
    /\ muts = 4
    /\ DOMAIN fs0 = {}
    /\ DOMAIN fs = {path.comps}
    /\ fs[path.comps] = FileNode("empty")

\* This step is the loop iteration of the next entry.
EntryStep ==
    pc = "walk" /\ idx < Len(entries) /\ idx' = idx + 1

\* The names of a sequence of stack slots, the empty slots left out.
RECURSIVE NamesOf(_)
NamesOf(st) ==
    IF st = <<>>
    THEN <<>>
    ELSE IF Head(st) = <<>> THEN NamesOf(Tail(st)) ELSE <<Head(st)>> \o NamesOf(Tail(st))

\* Every ancestor of the path below "." is a directory of f.
AncestorsAreDirs(f, comps) ==
    \A q \in Prefixes(Parent(comps)) : q \in DOMAIN f /\ f[q].kind = "dir"

\* C18: when the depth of an entry exceeds the length of the stack, the entry
\* is processed all the same: the stack is padded with empty slots up to that
\* depth, the path is the names of the stack followed by the entry's name, no
\* component standing for an empty slot, and where nothing is in the way the
\* node is created at that path.
DepthJumpFlattening ==
    [][(EntryStep /\ entries[idx + 1].depth > Len(stack)) =>
          LET ent == entries[idx + 1]
              name == TrimEndSlashes(ent.name)
          IN  /\ SubSeq(stack', 1, Len(stack)) = stack
              /\ \A k \in (Len(stack) + 1)..ent.depth : stack'[k] = <<>>
              /\ path'.comps = NamesOf(stack) \o (IF name = <<>> THEN <<>> ELSE <<name>>)
              /\ (/\ ~opts.dry_run /\ name # <<>>
                  /\ path'.comps \notin DOMAIN fs
                  /\ AncestorsAreDirs(fs, path'.comps))
                     => (/\ err' = "none" /\ path'.comps \in DOMAIN fs'
                         /\ fs'[path'.comps].kind = IF ent.is_dir THEN "dir" ELSE "file")]_vars

\* For the entries [a/ at depth 0, b at depth 2] the path of b is a/b: file
\* a/b exists and the stack holds an empty slot at index 1.
DepthJumpFlatteningWitness ==
    /\ pc = "walk" /\ idx = 2 /\ ~opts.dry_run
    /\ entries[1].depth = 0 /\ entries[1].is_dir
    /\ entries[2].depth = 2 /\ ~entries[2].is_dir
    /\ stack = <<TrimEndSlashes(entries[1].name), <<>>>>
    /\ path.comps = <<TrimEndSlashes(entries[1].name), entries[2].name>>
    /\ path_is_file(fs, path)
    /\ path.comps \notin DOMAIN fs0

\* C19: the resize for entry e leaves a stack of length e.depth; once e is
\* processed the stack has length e.depth + 1 with e's slash-stripped name on
\* top if e is a directory, and length e.depth if e is a file; a directory is
\* recorded by extending the resized stack by one slot, never by writing over
\* a slot.
StackLengthProtocol ==
    [][EntryStep =>
          LET ent == entries[idx + 1]
              st == Resized(stack, ent.depth)
          IN  /\ Len(st) = ent.depth
              /\ pc' = "walk" =>
                     IF ent.is_dir
                     THEN /\ Len(stack') = ent.depth + 1
                          /\ stack'[ent.depth + 1] = TrimEndSlashes(ent.name)
                          /\ SubSeq(stack', 1, ent.depth) = st
                     ELSE /\ Len(stack') = ent.depth
                          /\ stack' = st]_vars

\* A directory at depth 0 was processed after a directory at depth 1: the
\* stack was cut to length 0 and extended by the name, no slot written over.
StackLengthProtocolWitness ==
    /\ pc = "walk" /\ idx = 3
    /\ entries[2].is_dir /\ entries[2].depth = 1
    /\ entries[3].is_dir /\ entries[3].depth = 0
    /\ TrimEndSlashes(entries[3].name) # <<>>
    /\ stack = <<TrimEndSlashes(entries[3].name)>>

\* C20: in a run without force, whatever dry_run is and however the run ends,
\* a node that exists at some step exists with the same type at every later
\* step.
NothingDestroyedWithoutForce ==
    [][~opts.force =>
          \A p \in DOMAIN fs : p \in DOMAIN fs' /\ fs'[p].kind = fs[p].kind]_vars

\* A run without force has failed after it created nodes next to those of the
\* starting filesystem, which are all in place.
NothingDestroyedWithoutForceWitness ==
    /\ pc = "failed" /\ ~opts.force /\ ~opts.dry_run
    /\ DOMAIN fs0 # {}
    /\ DOMAIN fs # DOMAIN fs0
    /\ \A p \in DOMAIN fs0 : p \in DOMAIN fs /\ fs[p].kind = fs0[p].kind

RECURSIVE WalkPaths(_, _)
\* The paths the loop of main composes for the entries es from the stack st,
\* one per entry, every operation returning Ok.
WalkPaths(es, st) ==
    IF es = <<>>
    THEN <<>>
    ELSE LET ent == Head(es)
             resized == Resized(st, ent.depth)
         IN  <<EntryPath(resized, ent)>>
                 \o WalkPaths(Tail(es), IF ent.is_dir THEN Recorded(resized, ent) ELSE resized)

\* The path of entry i exists in f with the type the entry resolved to.
Materialized(f, es, i) ==
    LET p == WalkPaths(es, <<>>)[i]
    IN  IF es[i].is_dir THEN path_is_dir(f, p) ELSE path_is_file(f, p)

\* C21: the path of the entry the loop is at is the one composed for it, and
\* when a run without force and without dry_run has returned Ok, the path of
\* every entry exists with the entry's type: a directory for a directory
\* entry, a regular file for a file entry.
SuccessfulRunPostcondition ==
    /\ (pc \in {"walk", "done", "failed"} /\ idx >= 1)
           => path = WalkPaths(entries, <<>>)[idx]
    /\ (pc = "done" /\ ~opts.force /\ ~opts.dry_run)
           => \A i \in 1..Len(entries) : Materialized(fs, entries, i)

\* A run without force and without dry_run has returned Ok on three entries,
\* a directory and a file among them, next to a node that was there before.
SuccessfulRunPostconditionWitness ==
    /\ pc = "done" /\ run = 1 /\ ~opts.force /\ ~opts.dry_run
    /\ Len(entries) = 3
    /\ \E i \in 1..3 : entries[i].is_dir
    /\ \E i \in 1..3 : ~entries[i].is_dir
    /\ DOMAIN fs0 # {}
    /\ Cardinality(DOMAIN fs) >= Cardinality(DOMAIN fs0) + 2
    /\ \A i \in 1..3 : Materialized(fs, entries, i)

\* With force the postcondition can fail: a run has returned Ok and the path of
\* one of its entries does not exist with the entry's type, a later entry
\* having replaced it.
ForcedRunLosesEntry ==
    /\ pc = "done" /\ opts.force /\ ~opts.dry_run
    /\ \E i \in 1..Len(entries) : ~Materialized(fs, entries, i)

\* The most recent of the first n entries at depth d; 0 when there is none.
LastAtDepth(es, n, d) ==
    LET at == {j \in 1..n : es[j].depth = d}
    IN  IF at = {} THEN 0 ELSE CHOOSE j \in at : \A m \in at : m <= j

\* C22: when the first entry has depth 0 and no entry is more than one level
\* deeper than the entry before it, no slot of the stack is ever empty, and
\* when an entry is about to be processed every slot below its depth holds
\* the name of the most recent preceding entry at that depth, which is a
\* directory entry.
OpenAncestors ==
    (pc \in {"walk", "done"} /\ WellFormedDepths(DepthsOf(entries))) =>
        /\ \A k \in 1..Len(stack) : stack[k] # <<>>
        /\ idx < Len(entries) =>
               \A d \in 0..(entries[idx + 1].depth - 1) :
                   LET j == LastAtDepth(entries, idx, d)
                   IN  /\ j # 0
                       /\ entries[j].is_dir
                       /\ d + 1 <= Len(stack)
                       /\ stack[d + 1] = TrimEndSlashes(entries[j].name)

\* The names of a line read as a path relative to the target.
RelativeNames(line) ==
    SplitPath(line)

\* C23: paste_to_path runs the tree builder, with force and dry_run false,
\* exactly when the entries are not empty and one of them has depth > 0 or is
\* a directory; otherwise every non-blank line is a relative path under the
\* target, made a directory if the line ends with "/" and an empty file if
\* not; and the tree branch removes no node.
PasteDispatchClaim ==
    [][/\ (pc = "read" /\ pc' \in {"walk", "list"}) =>
              /\ (pc' = "walk") <=>
                     (entries' # <<>> /\ \E i \in 1..Len(entries') :
                                             entries'[i].depth > 0 \/ entries'[i].is_dir)
              /\ pc' = "walk" => (~opts.force /\ ~opts.dry_run)
       /\ (pc = "list" /\ idx' = idx + 1 /\ Trim(lines[idx + 1]) # <<>>) =>
              /\ path'.comps = RelativeNames(lines[idx + 1])
              /\ pc' = "list" =>
                     /\ path'.comps \in DOMAIN fs'
                     /\ fs'[path'.comps] = IF EndsWithSlash(lines[idx + 1])
                                           THEN DirNode
                                           ELSE FileNode("empty")
       /\ pc = "walk" =>
              \A p \in DOMAIN fs : p \in DOMAIN fs' /\ fs'[p].kind = fs[p].kind]_vars

====
